---- MODULE Spec2Model ----
(***************************************************************************)
(* The unpack engine of opencontainers-rs (src/glue.rs): Unpack::unpack,   *)
(* Unpack::apply_layer, Unpack::apply_change, get_whiteout_path and the    *)
(* SimpleFolderUnpacker implementation, together with ManifestV2::layers   *)
(* (src/image/manifest.rs).                                                *)
(*                                                                         *)
(* A path is the byte string of a std::path::Path on unix, written as a    *)
(* sequence of one-character strings, so that starts_with, the slice       *)
(* bytes[4..], file_name, pop and push are computed on the bytes as the    *)
(* code computes them.  An Option is a sequence of length 0 (None) or      *)
(* 1 (Some).                                                               *)
(***************************************************************************)
EXTENDS Integers, Sequences, FiniteSets, TLC

\* The largest number of layers of a manifest.
MaxLayers == 2

None == <<>>
Some(x) == <<x>>

----------------------------------------------------------------------------
(* std::path on unix, as far as src/glue.rs uses it *)

SEP == "/"
RootDir == <<"/">>
CurDir == <<".">>
ParentDir == <<".", ".">>

has_root(s) == Len(s) > 0 /\ s[1] = SEP

\* Components::include_cur_dir: a leading "." is kept as a component.
include_cur_dir(s) ==
    /\ ~has_root(s)
    /\ Len(s) >= 1
    /\ s[1] = "."
    /\ (Len(s) = 1 \/ s[2] = SEP)

len_before_body(s) ==
    (IF has_root(s) THEN 1 ELSE 0) + (IF include_cur_dir(s) THEN 1 ELSE 0)

\* The index in s of the last separator of the body, 0 when it has none.
last_sep(s) ==
    LET idx == {i \in (len_before_body(s) + 1)..Len(s) : s[i] = SEP}
    IN  IF idx = {} THEN 0 ELSE CHOOSE i \in idx : \A j \in idx : j <= i

\* Components::parse_next_component_back: the bytes after the last
\* separator of the body, and how many bytes they and that separator take.
back_comp(s) ==
    SubSeq(s, IF last_sep(s) > 0 THEN last_sep(s) + 1 ELSE len_before_body(s) + 1, Len(s))

back_size(s) == Len(back_comp(s)) + (IF last_sep(s) > 0 THEN 1 ELSE 0)

\* Components::trim_right, and the loop of Components::next_back: trailing
\* separators and "." components of the body are dropped.
RECURSIVE trim_right(_)
trim_right(s) ==
    IF Len(s) > len_before_body(s) /\ back_comp(s) \in {<<>>, CurDir}
    THEN trim_right(SubSeq(s, 1, Len(s) - back_size(s)))
    ELSE s

\* Components::next_back on the trimmed bytes t: the last component (None
\* when there is none) and the bytes left in front of it.
next_back_trimmed(t) ==
    IF Len(t) > len_before_body(t)
    THEN [comp |-> Some(back_comp(t)), rest |-> SubSeq(t, 1, Len(t) - back_size(t))]
    ELSE IF has_root(t) THEN [comp |-> Some(RootDir), rest |-> <<>>]
    ELSE IF include_cur_dir(t) THEN [comp |-> Some(CurDir), rest |-> <<>>]
    ELSE [comp |-> None, rest |-> t]

next_back(s) == next_back_trimmed(trim_right(s))

\* The k-th smallest element of the set S of numbers.
Kth(S, k) == CHOOSE x \in S : Cardinality({y \in S : y < x}) = k - 1

\* The positions of the separators of s, with both ends of s.
Cuts(s) == {0, Len(s) + 1} \cup {i \in 1..Len(s) : s[i] = SEP}

\* The bytes between two successive separators of s, front to back.
Segments(s) ==
    [k \in 1..(Cardinality(Cuts(s)) - 1) |->
        SubSeq(s, Kth(Cuts(s), k) + 1, Kth(Cuts(s), k + 1) - 1)]

IsBodyComponent(c) == c # <<>> /\ c # CurDir

\* Path::components, front to back: the root or a leading ".", then the
\* normal and ".." components; empty components and other "." are skipped.
components(s) ==
    (IF has_root(s) THEN <<RootDir>>
     ELSE IF include_cur_dir(s) THEN <<CurDir>>
     ELSE <<>>) \o SelectSeq(Segments(s), IsBodyComponent)

IsNormal(c) == c # RootDir /\ c # CurDir /\ c # ParentDir

\* Path::file_name: the last component, if it is a normal one.
file_name(s) ==
    LET nb == next_back(s)
    IN  IF nb.comp # None /\ IsNormal(nb.comp[1]) THEN nb.comp ELSE None

\* Path::parent.
parent(s) ==
    LET nb == next_back(s)
    IN  IF nb.comp # None /\ nb.comp[1] # RootDir
        THEN Some(trim_right(nb.rest))
        ELSE None

\* PathBuf::pop: truncates to the parent, if there is one.
pop(s) == IF parent(s) # None THEN parent(s)[1] ELSE s

\* PathBuf::push on unix.
push(s, p) ==
    IF has_root(p) THEN p
    ELSE IF Len(s) > 0 /\ s[Len(s)] # SEP THEN s \o <<SEP>> \o p
    ELSE s \o p

\* PathBuf::set_file_name.
set_file_name(s, name) ==
    push(IF file_name(s) # None THEN pop(s) ELSE s, name)

\* PathBuf equality compares the components.
path_eq(p, q) == components(p) = components(q)

----------------------------------------------------------------------------
(* Whiteout paths: src/glue.rs, get_whiteout_path *)

starts_with(bytes, needle) ==
    Len(bytes) >= Len(needle) /\ SubSeq(bytes, 1, Len(needle)) = needle

\* b".wh."
WhiteoutPrefix == <<".", "w", "h", ".">>

\* ".wh..wh..opq"
OpaqueMarker == <<".", "w", "h", ".", ".", "w", "h", ".", ".", "o", "p", "q">>

\* get_whiteout_path_unix with the slice taken one byte early: bytes[3..].
get_whiteout_path_unix_short_slice(path) ==
    LET filename == file_name(path)
    IN  IF filename = None THEN None
        ELSE IF ~starts_with(filename[1], WhiteoutPrefix) THEN None
        ELSE Some(set_file_name(path, SubSeq(filename[1], 4, Len(filename[1]))))

get_whiteout_path_unix(path) ==
    LET filename == file_name(path)
    IN  IF filename = None THEN None
        ELSE IF ~starts_with(filename[1], WhiteoutPrefix) THEN None
        ELSE Some(set_file_name(path, SubSeq(filename[1], 5, Len(filename[1]))))

get_whiteout_path(path) == get_whiteout_path_unix(path)

----------------------------------------------------------------------------
(* Results *)

NoPath == <<>>
Ok == [tag |-> "Ok", kind |-> "", path |-> NoPath]
Running == [tag |-> "Running", kind |-> "", path |-> NoPath]
\* UnpackError::{GetEntries, GetEntry, GetEntryPath, UnpackEntry}(io::Error)
UnpackError(kind) == [tag |-> "UnpackError", kind |-> kind, path |-> NoPath]
\* UnpackError::AttemptedFilesystemTraversal(PathBuf)
AttemptedFilesystemTraversal(path) ==
    [tag |-> "UnpackError", kind |-> "AttemptedFilesystemTraversal", path |-> path]
\* crate::Error::RegistryError
RegistryError == [tag |-> "RegistryError", kind |-> "", path |-> NoPath]

IsErr(r) == r.tag \in {"UnpackError", "RegistryError"}

----------------------------------------------------------------------------
(* The image: a resolved manifest and the blobs of the registry *)

A == <<"a">>
B == <<"b">>
C == <<"c">>
D == <<"d">>

\* The file names of cs joined by the separator.
RECURSIVE Join(_)
Join(cs) ==
    IF cs = <<>> THEN <<>>
    ELSE IF Len(cs) = 1 THEN cs[1]
    ELSE cs[1] \o <<SEP>> \o Join(Tail(cs))

\* A changeset entry: a tar entry with its path and data.  path_err: reading
\* the entry's path fails.
Entry(path, data) == [path |-> path, data |-> data, path_err |-> FALSE]
BadPathEntry == [path |-> NoPath, data |-> "", path_err |-> TRUE]

F == Join(<<A, B, C>>)

Digests ==
    {"sha256:add1", "sha256:add2", "sha256:wh", "sha256:marks", "sha256:adds",
     "sha256:esc", "sha256:badpath", "sha256:empty"}

\* The blob a digest addresses, as the entries of its tar archive.
Blob(digest) ==
    CASE digest = "sha256:add1" -> << Entry(F, "v1") >>
      [] digest = "sha256:add2" -> << Entry(F, "v2") >>
      [] digest = "sha256:wh" -> << Entry(Join(<<A, B, WhiteoutPrefix \o C>>), "") >>
      [] digest = "sha256:marks" ->
            << Entry(Join(<<A, B, OpaqueMarker>>), ""),
               Entry(Join(<<A, B, WhiteoutPrefix>>), ""),
               Entry(Join(<<A, WhiteoutPrefix \o ParentDir>>), ""),
               Entry(Join(<<A, WhiteoutPrefix \o CurDir>>), ""),
               Entry(Join(<<A, OpaqueMarker \o <<"x">>>>), ""),
               Entry(Join(<<ParentDir, WhiteoutPrefix \o C>>), ""),
               Entry(Join(<<ParentDir, OpaqueMarker>>), ""),
               Entry(Join(<<A, B, WhiteoutPrefix \o C>>) \o <<SEP>>, ""),
               Entry(WhiteoutPrefix \o D, ""),
               Entry(OpaqueMarker, ""),
               Entry(Join(<<A, ParentDir>>), "v1") >>
      [] digest = "sha256:adds" ->
            << Entry(Join(<<WhiteoutPrefix \o C, D>>), "v1"),
               Entry(Join(<<A, <<".", "w", "h", "c">>>>), "v2"),
               Entry(<<>>, "v1"),
               Entry(Join(<<CurDir, C>>), "v2"),
               Entry(<<SEP>> \o D, "v1") >>
      [] digest = "sha256:esc" ->
            << Entry(C, "v1"),
               Entry(Join(<<ParentDir, C>>), "v2"),
               Entry(F, "v2") >>
      [] digest = "sha256:badpath" -> << Entry(D, "v1"), BadPathEntry, Entry(F, "v1") >>
      [] digest = "sha256:empty" -> << >>

\* Sequences over S of length at most n.
SeqUpTo(S, n) == UNION {[1..k -> S] : k \in 0..n}

Schemas == {"Schema1", "Schema2"}

\* ManifestV2::Schema1(ManifestV2_1) and ManifestV2::Schema2(ManifestV2_2),
\* reduced to their layer lists.
Manifests == [schema : Schemas, layers : SeqUpTo(Digests, MaxLayers)]

\* layers with the list of a schema-1 manifest taken from its last layer to
\* its first.
layers_schema1_reversed(m) ==
    CASE m.schema = "Schema1" -> [i \in 1..Len(m.layers) |-> m.layers[Len(m.layers) + 1 - i]]
      [] m.schema = "Schema2" -> m.layers

\* ManifestV2::layers.  A manifest list is resolved to one of these two
\* before unpack is called on its image; layers is unimplemented!() for it.
layers(m) ==
    CASE m.schema = "Schema1" -> m.layers
      [] m.schema = "Schema2" -> m.layers

----------------------------------------------------------------------------
(* State *)

VARIABLES
    manifest,    \* image.manifest(): the resolved manifest
    unpacker,    \* the implementation of Unpack that unpack is called on
    pc,          \* where unpack is
    next_layer,  \* the number of layers the loop of unpack has taken
    tar,         \* the archive of the layer being applied, if any
    pos,         \* the number of entries layer.entries() has yielded
    entry,       \* the entry handed to apply_change, if any
    fs,          \* the files under the root of the unpacker
    result,      \* what unpack returned, Running until it returns
    trace,       \* the calls made so far with their results, in order
    input,       \* the argument of the manifest function being called, if any
    output       \* what that function has returned so far

\* The state of an unpack, and the state of a call of a function of
\* src/image/manifest.rs.
unpack_vars == <<manifest, unpacker, pc, next_layer, tar, pos, entry, fs, result, trace>>
call_vars == <<input, output>>

vars == <<manifest, unpacker, pc, next_layer, tar, pos, entry, fs, result, trace,
          input, output>>

\* SimpleFolderUnpacker keeps the default hooks; Hooked is an implementation
\* with the same add and whiteout handlers that overrides pre_apply and
\* post_apply with hooks that can fail.
Unpackers == {"SimpleFolderUnpacker", "Hooked"}

\* A call: what was called, on which path and data, and what it returned.
Event(op, path, data, ret) == [op |-> op, path |-> path, data |-> data, ret |-> ret]

\* A file under the root: its path below the root, as normal components,
\* and its data.
File(dst, data) == [path |-> dst, data |-> data]

----------------------------------------------------------------------------
(* The Unpack implementation: src/glue.rs, impl Unpack for SimpleFolderUnpacker *)

\* tar::Entry::unpack_in(root): Ok(false) without touching the root when the
\* path has a ".." component, Ok(true) without touching it when nothing but
\* separators and "." is left, else the file is written (io_ok) or the write
\* fails.
unpack_in(e, files, io_ok) ==
    LET comps    == components(e.path)
        file_dst == SelectSeq(comps, IsNormal)
    IN  IF \E i \in DOMAIN comps : comps[i] = ParentDir
        THEN [err |-> FALSE, val |-> FALSE, fs |-> files]
        ELSE IF file_dst = <<>>
        THEN [err |-> FALSE, val |-> TRUE, fs |-> files]
        ELSE IF ~io_ok
        THEN [err |-> TRUE, val |-> FALSE, fs |-> files]
        ELSE [err |-> FALSE, val |-> TRUE,
              fs |-> {f \in files : f.path # file_dst} \cup {File(file_dst, e.data)}]

\* What a handler did: its result, the files it left, and the call it was.
Done(op, path, data, res, files) ==
    [res |-> res, fs |-> files, calls |-> <<Event(op, path, data, res)>>]

\* add with the two failures of unpack_in told apart the wrong way round.
add_tags_swapped(e, files, io_ok) ==
    IF e.path_err
    THEN Done("add", e.path, e.data, UnpackError("GetEntryPath"), files)
    ELSE LET u == unpack_in(e, files, io_ok)
         IN  IF u.err
             THEN Done("add", e.path, e.data, AttemptedFilesystemTraversal(e.path), u.fs)
             ELSE IF ~u.val
             THEN Done("add", e.path, e.data, UnpackError("UnpackEntry"), u.fs)
             ELSE Done("add", e.path, e.data, Ok, u.fs)

\* SimpleFolderUnpacker::add
add(e, files, io_ok) ==
    IF e.path_err
    THEN Done("add", e.path, e.data, UnpackError("GetEntryPath"), files)
    ELSE LET u == unpack_in(e, files, io_ok)
         IN  IF u.err
             THEN Done("add", e.path, e.data, UnpackError("UnpackEntry"), u.fs)
             ELSE IF ~u.val
             THEN Done("add", e.path, e.data, AttemptedFilesystemTraversal(e.path), u.fs)
             ELSE Done("add", e.path, e.data, Ok, u.fs)

whiteout_file(path, files) == Done("whiteout_file", path, "", Ok, files)

whiteout_folder(path, files) == Done("whiteout_folder", path, "", Ok, files)

\* The results a hook can give.
pre_apply(u) ==
    IF u = "SimpleFolderUnpacker" THEN {Ok} ELSE {Ok, UnpackError("UnpackEntry")}

post_apply(u) ==
    IF u = "SimpleFolderUnpacker" THEN {Ok} ELSE {Ok, UnpackError("UnpackEntry")}

----------------------------------------------------------------------------
(* The engine: src/glue.rs, trait Unpack *)

\* apply_change with the test for the file whiteout prefix made before the
\* test for the opaque marker.
apply_change_prefix_first(e, files, io_ok) ==
    IF e.path_err
    THEN [res |-> UnpackError("GetEntryPath"), fs |-> files, calls |-> <<>>]
    ELSE LET path     == e.path
             filename == file_name(path)
         IN  IF filename # None /\ get_whiteout_path(path) # None
             THEN whiteout_file(get_whiteout_path(path)[1], files)
             ELSE IF filename # None /\ filename[1] = OpaqueMarker
             THEN whiteout_folder(path, files)
             ELSE add(e, files, io_ok)

\* Unpack::apply_change
apply_change(e, files, io_ok) ==
    IF e.path_err
    THEN [res |-> UnpackError("GetEntryPath"), fs |-> files, calls |-> <<>>]
    ELSE LET path     == e.path
             filename == file_name(path)
         IN  IF filename # None /\ filename[1] = OpaqueMarker
             THEN whiteout_folder(path, files)
             ELSE IF filename # None /\ get_whiteout_path(path) # None
             THEN whiteout_file(get_whiteout_path(path)[1], files)
             ELSE add(e, files, io_ok)

Init ==
    /\ manifest \in Manifests
    /\ unpacker \in Unpackers
    /\ pc = "unpack"
    /\ next_layer = 0
    /\ tar = None
    /\ pos = 0
    /\ entry = None
    /\ fs = {}
    /\ result = Running
    /\ trace = <<>>
    /\ input = None
    /\ output = None

\* unpack returns r.
Return(r) ==
    /\ pc' = "returned"
    /\ result' = r

\* Unpack::unpack, one turn of the loop: the next layer is fetched.
UnpackNextLayer ==
    /\ pc = "unpack"
    /\ next_layer < Len(layers(manifest))
    /\ next_layer' = next_layer + 1
    /\ \/ /\ tar' = Some(Blob(layers(manifest)[next_layer + 1]))
          /\ trace' = Append(trace, Event("get_layer", NoPath,
                                          layers(manifest)[next_layer + 1], Ok))
          /\ pc' = "apply_layer"
          /\ UNCHANGED result
       \/ /\ trace' = Append(trace, Event("get_layer", NoPath,
                                          layers(manifest)[next_layer + 1], RegistryError))
          /\ Return(RegistryError)
          /\ UNCHANGED tar
    /\ UNCHANGED <<input, output, manifest, unpacker, pos, entry, fs>>

\* Unpack::unpack, after the last layer.
UnpackReturn ==
    /\ pc = "unpack"
    /\ next_layer = Len(layers(manifest))
    /\ Return(Ok)
    /\ UNCHANGED <<input, output, manifest, unpacker, next_layer, tar, pos, entry, fs, trace>>

\* ApplyLayerPre with the error of pre_apply dropped: the entries follow.
ApplyLayerPre_IgnoreError ==
    /\ pc = "apply_layer"
    /\ \E r \in pre_apply(unpacker) :
          /\ trace' = Append(trace, Event("pre_apply", NoPath, "", r))
          /\ pc' = "entries"
          /\ UNCHANGED result
    /\ UNCHANGED <<input, output, manifest, unpacker, next_layer, tar, pos, entry, fs>>

\* Unpack::apply_layer: self.pre_apply()?
ApplyLayerPre ==
    /\ pc = "apply_layer"
    /\ \E r \in pre_apply(unpacker) :
          /\ trace' = Append(trace, Event("pre_apply", NoPath, "", r))
          /\ IF r = Ok THEN pc' = "entries" /\ UNCHANGED result ELSE Return(r)
    /\ UNCHANGED <<input, output, manifest, unpacker, next_layer, tar, pos, entry, fs>>

\* Unpack::apply_layer: layer.entries().map_err(UnpackError::GetEntries)?
ApplyLayerEntries ==
    /\ pc = "entries"
    /\ \/ /\ trace' = Append(trace, Event("entries", NoPath, "", Ok))
          /\ pc' = "next_entry"
          /\ pos' = 0
          /\ UNCHANGED result
       \/ /\ trace' = Append(trace, Event("entries", NoPath, "", UnpackError("GetEntries")))
          /\ Return(UnpackError("GetEntries"))
          /\ UNCHANGED pos
    /\ UNCHANGED <<input, output, manifest, unpacker, next_layer, tar, entry, fs>>

\* ApplyLayerNext with the loop ending one entry early.
ApplyLayerNext_SkipLast ==
    /\ pc = "next_entry"
    /\ \/ /\ pos < Len(tar[1]) - 1
          /\ entry' = Some(tar[1][pos + 1])
          /\ pos' = pos + 1
          /\ pc' = "apply_change"
          /\ UNCHANGED <<result, trace>>
       \/ /\ trace' = Append(trace, Event("entry", NoPath, "", UnpackError("GetEntry")))
          /\ Return(UnpackError("GetEntry"))
          /\ UNCHANGED <<pos, entry>>
       \/ /\ pos >= Len(tar[1]) - 1
          /\ pc' = "post_apply"
          /\ UNCHANGED <<pos, entry, result, trace>>
    /\ UNCHANGED <<input, output, manifest, unpacker, next_layer, tar, fs>>

\* Unpack::apply_layer: the iterator yields the next entry, an error, or ends.
ApplyLayerNext ==
    /\ pc = "next_entry"
    /\ \/ /\ pos < Len(tar[1])
          /\ entry' = Some(tar[1][pos + 1])
          /\ pos' = pos + 1
          /\ pc' = "apply_change"
          /\ UNCHANGED <<result, trace>>
       \/ /\ trace' = Append(trace, Event("entry", NoPath, "", UnpackError("GetEntry")))
          /\ Return(UnpackError("GetEntry"))
          /\ UNCHANGED <<pos, entry>>
       \/ /\ pos = Len(tar[1])
          /\ pc' = "post_apply"
          /\ UNCHANGED <<pos, entry, result, trace>>
    /\ UNCHANGED <<input, output, manifest, unpacker, next_layer, tar, fs>>

\* ApplyLayerChange with the error of apply_change dropped: the loop goes on.
ApplyLayerChange_Swallow ==
    /\ pc = "apply_change"
    /\ \E io_ok \in BOOLEAN :
          LET r == apply_change(entry[1], fs, io_ok)
          IN  /\ trace' = Append(trace, Event("apply_change", entry[1].path,
                                              entry[1].data, r.res)) \o r.calls
              /\ fs' = r.fs
              /\ pc' = "next_entry"
              /\ UNCHANGED result
    /\ entry' = None
    /\ UNCHANGED <<input, output, manifest, unpacker, next_layer, tar, pos>>

\* ApplyLayerChange with the files of the root removed when apply_change fails.
ApplyLayerChange_Rollback ==
    /\ pc = "apply_change"
    /\ \E io_ok \in BOOLEAN :
          LET r == apply_change(entry[1], fs, io_ok)
          IN  /\ trace' = Append(trace, Event("apply_change", entry[1].path,
                                              entry[1].data, r.res)) \o r.calls
              /\ IF r.res = Ok
                 THEN fs' = r.fs /\ pc' = "next_entry" /\ UNCHANGED result
                 ELSE fs' = {} /\ Return(r.res)
    /\ entry' = None
    /\ UNCHANGED <<input, output, manifest, unpacker, next_layer, tar, pos>>

\* Unpack::apply_layer: self.apply_change(entry)?
ApplyLayerChange ==
    /\ pc = "apply_change"
    /\ \E io_ok \in BOOLEAN :
          LET r == apply_change(entry[1], fs, io_ok)
          IN  /\ trace' = Append(trace, Event("apply_change", entry[1].path,
                                              entry[1].data, r.res)) \o r.calls
              /\ fs' = r.fs
              /\ IF r.res = Ok THEN pc' = "next_entry" /\ UNCHANGED result
                 ELSE Return(r.res)
    /\ entry' = None
    /\ UNCHANGED <<input, output, manifest, unpacker, next_layer, tar, pos>>

\* Unpack::apply_layer: self.post_apply(), and back to the loop of unpack.
ApplyLayerPost ==
    /\ pc = "post_apply"
    /\ \E r \in post_apply(unpacker) :
          /\ trace' = Append(trace, Event("post_apply", NoPath, "", r))
          /\ IF r = Ok THEN pc' = "unpack" /\ UNCHANGED result ELSE Return(r)
    /\ tar' = None
    /\ UNCHANGED <<input, output, manifest, unpacker, next_layer, pos, entry, fs>>

Next ==
    \/ UnpackNextLayer
    \/ UnpackReturn
    \/ ApplyLayerPre
    \/ ApplyLayerEntries
    \/ ApplyLayerNext
    \/ ApplyLayerChange
    \/ ApplyLayerPost

Spec == Init /\ [][Next]_vars

----------------------------------------------------------------------------
(* Calls of the functions of src/image/manifest.rs *)

\* Result::Ok(v) and Result::Err(ManifestError::kind(arg)).
OkVal(v) == [tag |-> "Ok", val |-> v]
ManifestError(kind, arg) == [tag |-> "Err", kind |-> kind, arg |-> arg]

\* No image is being unpacked.
NoUnpack ==
    /\ manifest = [schema |-> "Schema1", layers |-> <<>>]
    /\ unpacker = "SimpleFolderUnpacker"
    /\ next_layer = 0
    /\ tar = None
    /\ pos = 0
    /\ entry = None
    /\ fs = {}
    /\ result = Running
    /\ trace = <<>>

\* The function called returns.
Returned == pc = "returned"

----------------------------------------------------------------------------
(* Digest: src/image/manifest.rs.  A text is a sequence of characters. *)

\* The longest hex part of the digest texts tried.
MaxHexLen == 3

Sha256Text == <<"s", "h", "a", "2", "5", "6">>
Sha512Text == <<"s", "h", "a", "5", "1", "2">>

DigitChars == {"0", "1", "2", "3", "4", "5", "6", "7", "8", "9"}
LowerChars ==
    {"a", "b", "c", "d", "e", "f", "g", "h", "i", "j", "k", "l", "m",
     "n", "o", "p", "q", "r", "s", "t", "u", "v", "w", "x", "y", "z"}
UpperChars ==
    {"A", "B", "C", "D", "E", "F", "G", "H", "I", "J", "K", "L", "M",
     "N", "O", "P", "Q", "R", "S", "T", "U", "V", "W", "X", "Y", "Z"}

\* The characters of a hexadecimal run and of a bare identifier.
HexChars == DigitChars \cup {"a", "b", "c", "d", "e", "f"} \cup {"A", "B", "C", "D", "E", "F"}
IdentifierChars == DigitChars \cup LowerChars \cup UpperChars \cup {"_"}

IsRunOf(t, chars) == t # <<>> /\ \A i \in DOMAIN t : t[i] \in chars

\* The positions of the colons of s.
Colons(s) == {i \in DOMAIN s : s[i] = ":"}

\* DigestParser::parse(Rule::digest, s), the grammar of image/digest.pest:
\* <algorithm>:<hex>, the whole of s, with one colon, an identifier before
\* it and a hexadecimal run after it.  Some(<<algorithm, hex>>), or None
\* when s does not match.
DigestParser_parse(s) ==
    IF Cardinality(Colons(s)) # 1 THEN None
    ELSE LET c    == CHOOSE i \in Colons(s) : TRUE
             algo == SubSeq(s, 1, c - 1)
             hex  == SubSeq(s, c + 1, Len(s))
         IN  IF IsRunOf(algo, IdentifierChars) /\ IsRunOf(hex, HexChars)
             THEN Some(<<algo, hex>>)
             ELSE None

\* DigestAlgorithm::from_str with every token taken for sha256.
DigestAlgorithm_from_str_any(s) == OkVal("Sha256")

\* impl FromStr for DigestAlgorithm
DigestAlgorithm_from_str(s) ==
    IF s = Sha256Text THEN OkVal("Sha256")
    ELSE ManifestError("InvalidDigestAlgorithm", s)

\* impl Display for DigestAlgorithm
DigestAlgorithm_fmt(a) == CASE a = "Sha256" -> Sha256Text

\* Digest::from_str with the error of the algorithm reported as the error
\* of the grammar.
Digest_from_str_one_error(s) ==
    LET digest == DigestParser_parse(s)
    IN  IF digest = None THEN ManifestError("DigestParseFailed", s)
        ELSE LET algorithm == DigestAlgorithm_from_str(digest[1][1])
             IN  IF algorithm.tag # "Ok" THEN ManifestError("DigestParseFailed", s)
                 ELSE OkVal([algorithm |-> algorithm.val, hex |-> digest[1][2]])

\* impl FromStr for Digest
Digest_from_str(s) ==
    LET digest == DigestParser_parse(s)
    IN  IF digest = None THEN ManifestError("DigestParseFailed", s)
        ELSE LET algorithm == DigestAlgorithm_from_str(digest[1][1])
             IN  IF algorithm.tag # "Ok" THEN algorithm
                 ELSE OkVal([algorithm |-> algorithm.val, hex |-> digest[1][2]])

\* impl Display for Digest: "{}:{}"
Digest_fmt(d) == DigestAlgorithm_fmt(d.algorithm) \o <<":">> \o d.hex

\* The texts tried: an algorithm token, no, one or two colons, and up to
\* MaxHexLen characters, hexadecimal or not.
AlgorithmTokens ==
    {<<>>, Sha256Text, Sha512Text, <<"S", "H", "A", "2", "5", "6">>, <<"a">>,
     <<"s", "h", "a", "-", "2", "5", "6">>, <<"f", "o", "o", "b", "a", "r">>}
HexAlphabet == {"0", "a", "F", "x", ":"}

DigestTexts ==
    {algo \o sep \o hex : algo \in AlgorithmTokens,
                          sep \in {<<>>, <<":">>, <<":", ":">>},
                          hex \in SeqUpTo(HexAlphabet, MaxHexLen)}

DigestInit ==
    /\ input \in DigestTexts
    /\ output = <<>>
    /\ pc = "Digest::from_str"
    /\ NoUnpack

\* s.parse::<Digest>()
DigestFromStr ==
    /\ pc = "Digest::from_str"
    /\ output' = <<Digest_from_str(input)>>
    /\ pc' = IF output'[1].tag = "Ok" THEN "Digest::to_string" ELSE "returned"
    /\ UNCHANGED <<input, manifest, unpacker, next_layer, tar, pos, entry, fs, result, trace>>

\* digest.to_string()
DigestToString ==
    /\ pc = "Digest::to_string"
    /\ output' = Append(output, Digest_fmt(output[1].val))
    /\ pc' = "returned"
    /\ UNCHANGED <<input, manifest, unpacker, next_layer, tar, pos, entry, fs, result, trace>>

DigestNext ==
    \/ DigestFromStr
    \/ DigestToString

DigestSpec == DigestInit /\ [][DigestNext]_vars

----------------------------------------------------------------------------
(* LayerMediaType: src/image/manifest.rs.  A media type is a string. *)

\* LayerMediaType::{Tar, TarGz, NondistributableTar, NondistributableTarGz}
\* and LayerMediaType::Other(String).
Known(variant) == [variant |-> variant, text |-> ""]
Other(text) == [variant |-> "Other", text |-> text]

KnownVariants == {"Tar", "TarGz", "NondistributableTar", "NondistributableTarGz"}

\* LayerMediaType::from_str without the Docker spellings.
LayerMediaType_from_str_oci_only(s) ==
    CASE s = "application/vnd.oci.image.layer.v1.tar" -> Known("Tar")
      [] s = "application/vnd.oci.image.layer.v1.tar+gzip" -> Known("TarGz")
      [] s = "application/vnd.oci.image.layer.nondistributable.v1.tar" ->
            Known("NondistributableTar")
      [] s = "application/vnd.oci.image.layer.nondistributable.v1.tar+gzip" ->
            Known("NondistributableTarGz")
      [] OTHER -> Other(s)

\* impl FromStr for LayerMediaType; its Err is void::Void.
LayerMediaType_from_str(s) ==
    CASE s = "application/vnd.oci.image.layer.v1.tar" -> Known("Tar")
      [] s = "application/vnd.oci.image.layer.v1.tar+gzip" -> Known("TarGz")
      [] s = "application/vnd.docker.image.rootfs.diff.tar.gzip" -> Known("TarGz")
      [] s = "application/vnd.oci.image.layer.nondistributable.v1.tar" ->
            Known("NondistributableTar")
      [] s = "application/vnd.oci.image.layer.nondistributable.v1.tar+gzip" ->
            Known("NondistributableTarGz")
      [] s = "application/vnd.docker.image.rootfs.foreign.diff.tar.gzip" ->
            Known("NondistributableTarGz")
      [] OTHER -> Other(s)

\* impl Display for LayerMediaType
LayerMediaType_fmt(m) ==
    CASE m.variant = "Tar" -> "application/vnd.oci.image.layer.v1.tar"
      [] m.variant = "TarGz" -> "application/vnd.oci.image.layer.v1.tar+gzip"
      [] m.variant = "NondistributableTar" ->
            "application/vnd.oci.image.layer.nondistributable.v1.tar"
      [] m.variant = "NondistributableTarGz" ->
            "application/vnd.oci.image.layer.nondistributable.v1.tar+gzip"
      [] m.variant = "Other" -> m.text

OciSpellings ==
    {"application/vnd.oci.image.layer.v1.tar",
     "application/vnd.oci.image.layer.v1.tar+gzip",
     "application/vnd.oci.image.layer.nondistributable.v1.tar",
     "application/vnd.oci.image.layer.nondistributable.v1.tar+gzip"}

DockerSpellings ==
    {"application/vnd.docker.image.rootfs.diff.tar.gzip",
     "application/vnd.docker.image.rootfs.foreign.diff.tar.gzip"}

\* The media types tried: the known spellings, and every other pairing of
\* their beginnings and endings.
MediaTypePrefixes ==
    {"", "application/vnd.oci.image.layer.v1.",
     "application/vnd.oci.image.layer.nondistributable.v1.",
     "application/vnd.docker.image.rootfs.",
     "application/vnd.docker.image.rootfs.foreign.",
     "Application/vnd.oci.image.layer.v1."}
MediaTypeSuffixes ==
    {"", "tar", "tar+gzip", "diff.tar.gzip", "diff.tar", "tar+zstd", "TAR", "tar "}

MediaTypeTexts == {pre \o suf : pre \in MediaTypePrefixes, suf \in MediaTypeSuffixes}

MediaTypeInit ==
    /\ input \in MediaTypeTexts
    /\ output = <<>>
    /\ pc = "LayerMediaType::from_str"
    /\ NoUnpack

\* s.parse::<LayerMediaType>()
MediaTypeFromStr ==
    /\ pc = "LayerMediaType::from_str"
    /\ output' = <<LayerMediaType_from_str(input)>>
    /\ pc' = "LayerMediaType::to_string"
    /\ UNCHANGED <<input, manifest, unpacker, next_layer, tar, pos, entry, fs, result, trace>>

\* media_type.to_string()
MediaTypeToString ==
    /\ pc = "LayerMediaType::to_string"
    /\ output' = Append(output, LayerMediaType_fmt(output[1]))
    /\ pc' = "LayerMediaType::from_str again"
    /\ UNCHANGED <<input, manifest, unpacker, next_layer, tar, pos, entry, fs, result, trace>>

\* media_type.to_string().parse::<LayerMediaType>()
MediaTypeFromStrAgain ==
    /\ pc = "LayerMediaType::from_str again"
    /\ output' = Append(output, LayerMediaType_from_str(output[2]))
    /\ pc' = "returned"
    /\ UNCHANGED <<input, manifest, unpacker, next_layer, tar, pos, entry, fs, result, trace>>

MediaTypeNext ==
    \/ MediaTypeFromStr
    \/ MediaTypeToString
    \/ MediaTypeFromStrAgain

MediaTypeSpec == MediaTypeInit /\ [][MediaTypeNext]_vars

----------------------------------------------------------------------------
(* Manifests: src/image/manifest.rs, probe_manifest_v2_schema and           *)
(* impl FromStr for ManifestV2.                                             *)
(*                                                                          *)
(* A document is the text handed to serde_json, as what serde_json reads    *)
(* from it: whether it is a JSON object at all, its schemaVersion and       *)
(* mediaType members (absent, of another JSON type, or a value), and the    *)
(* manifest structures whose other members it holds.  The text of a         *)
(* mediaType is a sequence of pieces, "+" being a piece of its own.         *)

\* The largest schemaVersion of the documents tried.
MaxSchemaVersion == 3

Absent == [kind |-> "absent", n |-> 0, text |-> <<>>]
Mistyped == [kind |-> "mistyped", n |-> 0, text |-> <<>>]
U64(n) == [kind |-> "u64", n |-> n, text |-> <<>>]
String(text) == [kind |-> "string", n |-> 0, text |-> text]

\* The pieces of a text put together.
RECURSIVE Concat(_)
Concat(text) == IF text = <<>> THEN "" ELSE text[1] \o Concat(Tail(text))

ManifestStructs == {"ManifestV2_1", "ManifestV2_2", "ManifestListV2_2"}

\* serde_json::from_str::<T>(data) succeeds: data is a JSON object that has
\* every member T requires, each of the type T gives it.
Decodes(T, data) ==
    /\ data.json
    /\ CASE T = "ManifestSchemaOnlyV2" -> data.schemaVersion.kind = "u64"
         [] T = "ManifestMediaTypeOnlyV2_2" -> data.mediaType.kind = "string"
         [] T = "ManifestV2_1" ->
               data.schemaVersion.kind = "u64" /\ T \in data.members
         [] T \in {"ManifestV2_2", "ManifestListV2_2"} ->
               /\ data.schemaVersion.kind = "u64"
               /\ data.mediaType.kind = "string"
               /\ T \in data.members

\* serde_json::from_str::<T>(data).map_err(ManifestError::JsonError)
serde_json_from_str(T, data) ==
    IF Decodes(T, data) THEN OkVal(data) ELSE ManifestError("JsonError", T)

\* media_type.split('+').next(): the text up to its first "+".
split_next(text) ==
    LET plus == {i \in DOMAIN text : text[i] = "+"}
    IN  Concat(SubSeq(text, 1, IF plus = {} THEN Len(text)
                               ELSE (CHOOSE i \in plus : \A j \in plus : i <= j) - 1))

\* probe_manifest_v2_schema with the mediaType looked at before the
\* schemaVersion is matched.
probe_manifest_v2_schema_media_type_first(data) ==
    LET manifest_schema == serde_json_from_str("ManifestSchemaOnlyV2", data)
        manifest_media  == serde_json_from_str("ManifestMediaTypeOnlyV2_2", data)
        media_type      == data.mediaType.text
        media_type_split == split_next(media_type)
    IN  IF manifest_schema.tag # "Ok" THEN manifest_schema
        ELSE IF manifest_media.tag # "Ok" THEN manifest_media
        ELSE IF data.schemaVersion.n = 1 THEN OkVal("Schema1")
        ELSE IF data.schemaVersion.n # 2
        THEN ManifestError("InvalidSchemaVersion", data.schemaVersion.n)
        ELSE CASE media_type_split = "application/vnd.oci.distribution.manifest.v2" ->
                      OkVal("Schema2")
               [] media_type_split = "application/vnd.oci.distribution.manifest.list.v2" ->
                      OkVal("Schema2List")
               [] media_type_split = "application/vnd.docker.distribution.manifest.v2" ->
                      OkVal("Schema2")
               [] media_type_split = "application/vnd.docker.distribution.manifest.list.v2" ->
                      OkVal("Schema2List")
               [] OTHER -> ManifestError("InvalidMediaType", Concat(media_type))

\* probe_manifest_v2_schema with the whole mediaType matched, its "+suffix"
\* not cut off.
probe_manifest_v2_schema_no_split(data) ==
    LET manifest_schema == serde_json_from_str("ManifestSchemaOnlyV2", data)
        manifest_media  == serde_json_from_str("ManifestMediaTypeOnlyV2_2", data)
        media_type      == data.mediaType.text
        media_type_split == Concat(media_type)
    IN  IF manifest_schema.tag # "Ok" THEN manifest_schema
        ELSE IF data.schemaVersion.n = 1 THEN OkVal("Schema1")
        ELSE IF data.schemaVersion.n # 2
        THEN ManifestError("InvalidSchemaVersion", data.schemaVersion.n)
        ELSE IF manifest_media.tag # "Ok" THEN manifest_media
        ELSE CASE media_type_split = "application/vnd.oci.distribution.manifest.v2" ->
                      OkVal("Schema2")
               [] media_type_split = "application/vnd.oci.distribution.manifest.list.v2" ->
                      OkVal("Schema2List")
               [] media_type_split = "application/vnd.docker.distribution.manifest.v2" ->
                      OkVal("Schema2")
               [] media_type_split = "application/vnd.docker.distribution.manifest.list.v2" ->
                      OkVal("Schema2List")
               [] OTHER -> ManifestError("InvalidMediaType", Concat(media_type))

\* probe_manifest_v2_schema.  split('+').next() always yields a piece, so
\* its ok_or never gives the error.
probe_manifest_v2_schema(data) ==
    LET manifest_schema == serde_json_from_str("ManifestSchemaOnlyV2", data)
        manifest_media  == serde_json_from_str("ManifestMediaTypeOnlyV2_2", data)
        media_type      == data.mediaType.text
        media_type_split == split_next(media_type)
    IN  IF manifest_schema.tag # "Ok" THEN manifest_schema
        ELSE IF data.schemaVersion.n = 1 THEN OkVal("Schema1")
        ELSE IF data.schemaVersion.n # 2
        THEN ManifestError("InvalidSchemaVersion", data.schemaVersion.n)
        ELSE IF manifest_media.tag # "Ok" THEN manifest_media
        ELSE CASE media_type_split = "application/vnd.oci.distribution.manifest.v2" ->
                      OkVal("Schema2")
               [] media_type_split = "application/vnd.oci.distribution.manifest.list.v2" ->
                      OkVal("Schema2List")
               [] media_type_split = "application/vnd.docker.distribution.manifest.v2" ->
                      OkVal("Schema2")
               [] media_type_split = "application/vnd.docker.distribution.manifest.list.v2" ->
                      OkVal("Schema2List")
               [] OTHER -> ManifestError("InvalidMediaType", Concat(media_type))

\* ManifestV2::SchemaX(decoded): the variant, the structure decoded and
\* the document it was decoded from.
ManifestV2(variant, T, data) == [variant |-> variant, struct |-> T, data |-> data]

\* The structure each probe result is decoded into.
StructOf(probe) ==
    CASE probe = "Schema1" -> "ManifestV2_1"
      [] probe = "Schema2" -> "ManifestV2_2"
      [] probe = "Schema2List" -> "ManifestListV2_2"

\* ManifestV2::from_str that gives a manifest of its own making when the
\* decode fails.
ManifestV2_from_str_defaulting(s) ==
    LET probe == probe_manifest_v2_schema(s)
    IN  IF probe.tag # "Ok" THEN probe
        ELSE OkVal(ManifestV2(probe.val, StructOf(probe.val), s))

\* impl FromStr for ManifestV2
ManifestV2_from_str(s) ==
    LET probe == probe_manifest_v2_schema(s)
    IN  IF probe.tag # "Ok" THEN probe
        ELSE LET decoded == serde_json_from_str(StructOf(probe.val), s)
             IN  IF decoded.tag # "Ok" THEN decoded
                 ELSE OkVal(ManifestV2(probe.val, StructOf(probe.val), decoded.val))

\* The documents tried.
KnownManifestMediaTypes ==
    {"application/vnd.oci.distribution.manifest.v2",
     "application/vnd.oci.distribution.manifest.list.v2",
     "application/vnd.docker.distribution.manifest.v2",
     "application/vnd.docker.distribution.manifest.list.v2"}

ManifestMediaTypeBases ==
    KnownManifestMediaTypes \cup
    {"application/vnd.docker.distribution.manifest.v1", "text/plain", ""}

ManifestMediaTypeTexts ==
    {<<>>, <<"application/vnd.oci.distribution.", "manifest.v2", "+", "json">>,
     <<"application/vnd.oci.distribution.manifest.v2", "json">>}
    \cup {<<b>> : b \in ManifestMediaTypeBases}
    \cup {<<b, "+">> : b \in ManifestMediaTypeBases}
    \cup {<<b, "+", "json">> : b \in ManifestMediaTypeBases}
    \cup {<<b, "+", "prettyjws", "+", "json">> : b \in ManifestMediaTypeBases}
    \cup {<<"+", b>> : b \in ManifestMediaTypeBases}

NotAnObject ==
    [json |-> FALSE, schemaVersion |-> Absent, mediaType |-> Absent, members |-> {}]

Documents ==
    {NotAnObject} \cup
    [json : {TRUE},
     schemaVersion : {Absent, Mistyped} \cup {U64(n) : n \in 0..MaxSchemaVersion},
     mediaType : {Absent, Mistyped} \cup {String(t) : t \in ManifestMediaTypeTexts},
     members : SUBSET ManifestStructs]

ManifestInit ==
    /\ input \in Documents
    /\ output = <<>>
    /\ pc = "probe_manifest_v2_schema"
    /\ NoUnpack

\* probe_manifest_v2_schema(data)
ManifestProbe ==
    /\ pc = "probe_manifest_v2_schema"
    /\ output' = <<probe_manifest_v2_schema(input)>>
    /\ pc' = "ManifestV2::from_str"
    /\ UNCHANGED <<input, manifest, unpacker, next_layer, tar, pos, entry, fs, result, trace>>

\* data.parse::<ManifestV2>()
ManifestFromStr ==
    /\ pc = "ManifestV2::from_str"
    /\ output' = Append(output, ManifestV2_from_str(input))
    /\ pc' = "returned"
    /\ UNCHANGED <<input, manifest, unpacker, next_layer, tar, pos, entry, fs, result, trace>>

ManifestNext ==
    \/ ManifestProbe
    \/ ManifestFromStr

ManifestSpec == ManifestInit /\ [][ManifestNext]_vars

----------------------------------------------------------------------------
(* Manifest lists: ManifestListV2_2::get_current_platform_manifest,         *)
(* src/image/manifest.rs.  The selector T and the registry are the          *)
(* caller's: the selector may yield any entry of the list or none, the      *)
(* registry may fail or answer with any document.                           *)

\* The largest number of entries of a manifest list.
MaxEntries == 2

\* The digests of the entries of the lists tried.
EntryDigests ==
    {[algorithm |-> "Sha256", hex |-> <<"a">>], [algorithm |-> "Sha256", hex |-> <<"b", "0">>]}

ManifestLists == UNION {[1..n -> EntryDigests] : n \in 0..MaxEntries}

\* What the registry may answer with.
RegistryDocuments ==
    {NotAnObject} \cup
    [json : {TRUE},
     schemaVersion : {Absent} \cup {U64(n) : n \in 0..MaxSchemaVersion},
     mediaType : {Absent,
                  String(<<"application/vnd.oci.distribution.manifest.v2">>),
                  String(<<"application/vnd.docker.distribution.manifest.v2", "+", "json">>),
                  String(<<"application/vnd.docker.distribution.manifest.list.v2", "+", "json">>),
                  String(<<"text/plain">>)},
     members : SUBSET ManifestStructs]

\* RegistryError::ManifestError(e), RegistryError::ReqwestError(e) and the
\* error of Registry::get.
RegistryError_ManifestError(e) == [tag |-> "Err", kind |-> "ManifestError", arg |-> e]
RegistryError_ReqwestError == [tag |-> "Err", kind |-> "ReqwestError", arg |-> ""]
RegistryError_get == [tag |-> "Err", kind |-> "Registry::get", arg |-> ""]

\* format!("{}/v2/{}/manifests/{}", image.registry.url, image.name, digest)
ManifestUrl(digest) ==
    <<"image.registry.url", "/v2/", "image.name", "/manifests/">> \o Digest_fmt(digest)

ResolveInit ==
    /\ input \in ManifestLists
    /\ output = <<>>
    /\ pc = "get_current_platform_manifest_digest"
    /\ NoUnpack

\* get_current_platform_manifest_digest::<T>() and its ok_or: the digest of
\* the entry that T::select_manifest yields, NoMatchingPlatformFound when it
\* yields none.
ResolveSelect ==
    /\ pc = "get_current_platform_manifest_digest"
    /\ \E selected \in {None} \cup {Some(i) : i \in DOMAIN input} :
          IF selected = None
          THEN /\ output' = <<None,
                    RegistryError_ManifestError(ManifestError("NoMatchingPlatformFound", ""))>>
               /\ pc' = "returned"
          ELSE /\ output' = <<Some(input[selected[1]])>>
               /\ pc' = "registry.get"
    /\ UNCHANGED <<input, manifest, unpacker, next_layer, tar, pos, entry, fs, result, trace>>

\* image.registry.get(&url, None)?.text().map_err(RegistryError::ReqwestError)?
ResolveFetch ==
    /\ pc = "registry.get"
    /\ trace' = Append(trace, [op |-> "registry.get", url |-> ManifestUrl(output[1][1])])
    /\ \E response \in {RegistryError_get, RegistryError_ReqwestError}
                          \cup {OkVal(blob) : blob \in RegistryDocuments} :
          /\ output' = Append(output, response)
          /\ pc' = IF response.tag = "Ok" THEN "serde_json::from_str" ELSE "returned"
    /\ UNCHANGED <<input, manifest, unpacker, next_layer, tar, pos, entry, fs, result>>

\* serde_json::from_str(&blob).map_err(JsonError).map_err(ManifestError)
ResolveDecode ==
    /\ pc = "serde_json::from_str"
    /\ LET decoded == serde_json_from_str("ManifestV2_2", output[2].val)
       IN  output' = Append(output, IF decoded.tag = "Ok" THEN decoded
                                    ELSE RegistryError_ManifestError(decoded))
    /\ pc' = "returned"
    /\ UNCHANGED <<input, manifest, unpacker, next_layer, tar, pos, entry, fs, result, trace>>

ResolveNext ==
    \/ ResolveSelect
    \/ ResolveFetch
    \/ ResolveDecode

ResolveSpec == ResolveInit /\ [][ResolveNext]_vars

----------------------------------------------------------------------------
(* Platforms: ManifestPlatformV2_2, src/image/manifest.rs.  The host is     *)
(* std::env::consts::ARCH and OS of the build.  The enumerations GoArch and *)
(* GoOs and their FromStr are in image/go.rs: each parses the host's string *)
(* into a value of the closed enumeration, or fails.                        *)

GoArchs == {"Amd64", "Arm", "Arm64"}
GoOss == {"Linux", "Windows", "Darwin"}

\* s.parse::<go::GoArch>().ok()
GoArch_from_str(s) ==
    CASE s = "x86_64" -> Some("Amd64")
      [] s = "arm" -> Some("Arm")
      [] s = "aarch64" -> Some("Arm64")
      [] OTHER -> None

\* s.parse::<go::GoOs>().ok()
GoOs_from_str(s) ==
    CASE s = "linux" -> Some("Linux")
      [] s = "windows" -> Some("Windows")
      [] s = "macos" -> Some("Darwin")
      [] OTHER -> None

\* ManifestPlatformV2_2::current_arch_matches
current_arch_matches(self, host) == GoArch_from_str(host.ARCH) = Some(self.architecture)

\* ManifestPlatformV2_2::current_os_matches
current_os_matches(self, host) == GoOs_from_str(host.OS) = Some(self.os)

\* ManifestPlatformV2_2::current_osfeatures_match
current_osfeatures_match(self) == TRUE

\* ManifestPlatformV2_2::current_features_match
current_features_match(self) == TRUE

\* current_variant_matches that matches a descriptor without variant only.
current_variant_matches_none_only(self) == self.variant = None

\* ManifestPlatformV2_2::current_variant_matches
current_variant_matches(self) == TRUE

\* ManifestPlatformV2_2::current_platform_matches
current_platform_matches(self, host) ==
    /\ current_arch_matches(self, host)
    /\ current_os_matches(self, host)
    /\ current_features_match(self)
    /\ current_variant_matches(self)

\* The hosts and the descriptors tried.
Hosts ==
    [ARCH : {"x86_64", "arm", "aarch64", "riscv64"},
     OS : {"linux", "windows", "macos", "freebsd"}]

Platforms ==
    [architecture : GoArchs,
     os : GoOss,
     osversion : {None, Some("10.0.10586")},
     osfeatures : {None, Some(<<"win32k">>)},
     variant : {None, Some("armv6l"), Some("v8")},
     features : {None, Some(<<"sse4", "aes">>)}]

PlatformInit ==
    /\ input \in [self : Platforms, host : Hosts]
    /\ output = <<>>
    /\ pc = "current_arch_matches"
    /\ NoUnpack

\* platform.current_arch_matches()
PlatformArchMatches ==
    /\ pc = "current_arch_matches"
    /\ output' = <<current_arch_matches(input.self, input.host)>>
    /\ pc' = "current_os_matches"
    /\ UNCHANGED <<input, manifest, unpacker, next_layer, tar, pos, entry, fs, result, trace>>

\* platform.current_os_matches()
PlatformOsMatches ==
    /\ pc = "current_os_matches"
    /\ output' = Append(output, current_os_matches(input.self, input.host))
    /\ pc' = "current_platform_matches"
    /\ UNCHANGED <<input, manifest, unpacker, next_layer, tar, pos, entry, fs, result, trace>>

\* platform.current_platform_matches()
PlatformMatches ==
    /\ pc = "current_platform_matches"
    /\ output' = Append(output, current_platform_matches(input.self, input.host))
    /\ pc' = "returned"
    /\ UNCHANGED <<input, manifest, unpacker, next_layer, tar, pos, entry, fs, result, trace>>

PlatformNext ==
    \/ PlatformArchMatches
    \/ PlatformOsMatches
    \/ PlatformMatches

PlatformSpec == PlatformInit /\ [][PlatformNext]_vars

----------------------------------------------------------------------------
(* Reading the trace *)

HandlerOps == {"add", "whiteout_file", "whiteout_folder"}

IsGetLayer(e) == e.op = "get_layer"
IsApplyChange(e) == e.op = "apply_change"

\* The positions of the calls of op.
Calls(op) == {i \in DOMAIN trace : trace[i].op = op}

\* The calls made for the layer fetched at position i of the trace: those
\* after it, up to the next fetch.
LayerCalls(i) ==
    LET later == {j \in Calls("get_layer") : j > i}
    IN  SubSeq(trace, i + 1,
               IF later = {} THEN Len(trace)
               ELSE (CHOOSE j \in later : \A k \in later : j <= k) - 1)

\* The calls of apply_change for the layer fetched at position i.
Changes(i) == SelectSeq(LayerCalls(i), IsApplyChange)

\* The last of the components cs, None when there is none.
Last(cs) == IF cs = <<>> THEN None ELSE Some(cs[Len(cs)])

\* All of the components cs but the last.
Front(cs) == SubSeq(cs, 1, Len(cs) - 1)

\* The last component of a path, None when it has no component.
FinalComponent(path) == Last(components(path))

\* The file name c starts with the whiteout prefix.
HasWhiteoutPrefix(c) == c # None /\ starts_with(c[1], WhiteoutPrefix)

\* The file name c without its first four bytes.
Remainder(c) == SubSeq(c[1], 5, Len(c[1]))

\* The components cs leave the root: at some component, more ".." than
\* names precede.
Escapes(cs) ==
    \E k \in 1..Len(cs) :
        Cardinality({j \in 1..k : cs[j] = ParentDir})
            > Cardinality({j \in 1..k : IsNormal(cs[j])})

EscapesRoot(path) == Escapes(components(path))

\* The path of the entry handed to apply_change at position i was read.
PathRead(i) == trace[i].ret # UnpackError("GetEntryPath")

FPath == <<A, B, C>>

----------------------------------------------------------------------------
(* Claims *)

\* C1: the layers are fetched and applied one at a time in the order of the
\* manifest's list: the fetches so far are a prefix of the list, a layer is
\* fetched only when the layer before it has been applied to its end, it is
\* applied right after it is fetched, a successful unpack has fetched and
\* applied every layer once, and layers() is the list in its original order
\* for both schemas.
C1_LayersInOrder ==
    LET fetched == SelectSeq(trace, IsGetLayer)
    IN  /\ Len(fetched) <= Len(manifest.layers)
        /\ \A k \in DOMAIN fetched : fetched[k].data = manifest.layers[k]
        /\ \A i \in Calls("get_layer") :
              i > 1 => trace[i - 1].op = "post_apply" /\ trace[i - 1].ret = Ok
        /\ \A i \in Calls("pre_apply") :
              i > 1 /\ trace[i - 1].op = "get_layer" /\ trace[i - 1].ret = Ok
        /\ result = Ok =>
              /\ Len(fetched) = Len(manifest.layers)
              /\ Cardinality(Calls("pre_apply")) = Len(manifest.layers)
              /\ Cardinality(Calls("post_apply")) = Len(manifest.layers)
        /\ layers(manifest) = manifest.layers

C1_Witness ==
    /\ result = Ok
    /\ manifest = [schema |-> "Schema1", layers |-> <<"sha256:add1", "sha256:wh">>]

\* C2: for a layer applied with success, pre_apply is called once and first,
\* post_apply once and last, and between them apply_change is called once
\* for each entry of the layer's archive, in the archive's order.
C2_HooksAroundEntries ==
    \A i \in Calls("get_layer") :
        LET calls   == LayerCalls(i)
            changes == SelectSeq(calls, IsApplyChange)
            blob    == Blob(trace[i].data)
        IN  (/\ calls # <<>>
             /\ calls[Len(calls)].op = "post_apply"
             /\ calls[Len(calls)].ret = Ok)
            => /\ calls[1].op = "pre_apply"
               /\ Cardinality({k \in DOMAIN calls : calls[k].op = "pre_apply"}) = 1
               /\ Cardinality({k \in DOMAIN calls : calls[k].op = "post_apply"}) = 1
               /\ Len(changes) = Len(blob)
               /\ \A k \in DOMAIN blob :
                     /\ changes[k].path = blob[k].path
                     /\ changes[k].data = blob[k].data

C2_Witness ==
    /\ result = Ok
    /\ manifest.layers = <<"sha256:adds">>
    /\ Cardinality(Calls("apply_change")) = Len(Blob("sha256:adds"))

\* C3: a handler called on a path that leaves the root fails with
\* AttemptedFilesystemTraversal carrying that path, and the files are left
\* as they were.
C3_NoEscape ==
    [][\A i \in (Len(trace) + 1)..Len(trace') :
          (/\ unpacker = "SimpleFolderUnpacker"
           /\ trace'[i].op \in HandlerOps
           /\ EscapesRoot(trace'[i].path))
          => /\ trace'[i].ret = AttemptedFilesystemTraversal(trace'[i].path)
             /\ fs' = fs]_vars

\* C4: after a layer that adds f and a layer with the whiteout of f, f is
\* absent; after the whiteout and then a layer that adds f, f is there with
\* the second layer's data.
C4_LayerOrdering ==
    /\ (/\ unpacker = "SimpleFolderUnpacker"
        /\ result = Ok
        /\ manifest.layers = <<"sha256:add1", "sha256:wh">>)
          => ~ \E f \in fs : f.path = FPath
    /\ (/\ unpacker = "SimpleFolderUnpacker"
        /\ result = Ok
        /\ manifest.layers = <<"sha256:wh", "sha256:add2">>)
          => File(FPath, "v2") \in fs

\* C5: an entry whose last component is the opaque marker is dispatched to
\* whiteout_folder with the path of the directory that holds the marker.
C5_OpaqueDirectory ==
    \A i \in Calls("apply_change") :
        LET cs == components(trace[i].path)
        IN  Last(cs) = Some(OpaqueMarker)
            => /\ i < Len(trace)
               /\ trace[i + 1].op = "whiteout_folder"
               /\ components(trace[i + 1].path) = Front(cs)

\* C6: an entry whose last component is the whiteout prefix followed by more
\* bytes, and is not the opaque marker, is dispatched to whiteout_file with
\* the entry's path, the prefix removed from the last component and the
\* directory components as they were; for a path whose last component does
\* not start with the prefix, get_whiteout_path is None and the entry is
\* dispatched to add.
C6_FileWhiteout ==
    \A i \in Calls("apply_change") :
        LET cs == components(trace[i].path)
            c  == Last(cs)
        IN  /\ (HasWhiteoutPrefix(c) /\ Remainder(c) # <<>> /\ c[1] # OpaqueMarker)
               => /\ i < Len(trace)
                  /\ trace[i + 1].op = "whiteout_file"
                  /\ path_eq(trace[i + 1].path, Join(Append(Front(cs), Remainder(c))))
                  /\ Remainder(c) # CurDir
                        => components(trace[i + 1].path) = Append(Front(cs), Remainder(c))
            /\ (PathRead(i) /\ ~HasWhiteoutPrefix(c))
               => /\ get_whiteout_path(trace[i].path) = None
                  /\ i < Len(trace)
                  /\ trace[i + 1].op = "add"
                  /\ trace[i + 1].path = trace[i].path
                  /\ trace[i + 1].data = trace[i].data

C6_Witness ==
    /\ result = Ok
    /\ manifest.layers = <<"sha256:wh", "sha256:add2">>
    /\ \E i \in Calls("whiteout_file") : trace[i].path = F
    /\ \E i \in Calls("add") : trace[i].path = F

\* C7: an entry whose last component is the whiteout prefix and nothing more
\* is no file whiteout: get_whiteout_path is None for it and it is
\* dispatched to add.
C7_BarePrefix ==
    \A i \in Calls("apply_change") :
        FinalComponent(trace[i].path) = Some(WhiteoutPrefix)
        => /\ get_whiteout_path(trace[i].path) = None
           /\ i < Len(trace)
           /\ trace[i + 1].op = "add"

\* C8: for an entry whose path was read, apply_change calls one handler,
\* once: whiteout_folder for the opaque marker, add for a path with no final
\* file name; and a handler is called by apply_change only.
C8_ExactlyOneHandler ==
    /\ \A i \in Calls("apply_change") :
          LET c == FinalComponent(trace[i].path)
          IN  PathRead(i)
              => /\ i < Len(trace)
                 /\ trace[i + 1].op \in HandlerOps
                 /\ i + 2 <= Len(trace) => trace[i + 2].op \notin HandlerOps
                 /\ c = Some(OpaqueMarker) => trace[i + 1].op = "whiteout_folder"
                 /\ (c = None \/ ~IsNormal(c[1])) => trace[i + 1].op = "add"
    /\ \A j \in DOMAIN trace :
          trace[j].op \in HandlerOps => j > 1 /\ trace[j - 1].op = "apply_change"

C8_Witness ==
    /\ manifest.layers = <<"sha256:marks">>
    /\ \E i \in Calls("whiteout_folder") : FinalComponent(trace[i].path) = Some(OpaqueMarker)
    /\ \E i \in Calls("whiteout_file") : TRUE
    /\ \E i \in Calls("add") : FinalComponent(trace[i].path) = Some(ParentDir)

\* C9: when opening the entries, reading an entry, reading its path or a
\* handler fails, unpack has returned that error: the only call after the
\* failing one is the handler apply_change had called, no later entry is
\* dispatched and post_apply is not called; an add on a path with a ".."
\* component fails with AttemptedFilesystemTraversal.
C9_ErrorsAbort ==
    /\ \A i \in DOMAIN trace :
          (trace[i].op \in {"entries", "entry", "apply_change"} \cup HandlerOps
              /\ trace[i].ret # Ok)
          => /\ pc = "returned"
             /\ result = trace[i].ret
             /\ \A j \in (i + 1)..Len(trace) :
                   /\ j = i + 1
                   /\ trace[i].op = "apply_change"
                   /\ trace[j].op \in HandlerOps
                   /\ trace[j].ret = trace[i].ret
    /\ \A i \in Calls("add") :
          LET cs == components(trace[i].path)
          IN  (\E k \in DOMAIN cs : cs[k] = ParentDir)
              => trace[i].ret = AttemptedFilesystemTraversal(trace[i].path)

C9_Witness ==
    /\ manifest.layers = <<"sha256:esc">>
    /\ result = AttemptedFilesystemTraversal(Join(<<ParentDir, C>>))
    /\ Cardinality(Calls("add")) = 2

\* C10, in a state: when unpack has failed, its result is the error of the
\* last call made and every call before the failing one succeeded; every
\* layer of the manifest is fetched at most once and every entry of a layer
\* is handed to apply_change at most once, in order.
C10_StateOnFailure ==
    /\ IsErr(result)
          => /\ pc = "returned"
             /\ trace # <<>>
             /\ trace[Len(trace)].ret = result
             /\ \A i \in 1..(Len(trace) - 2) : trace[i].ret = Ok
    /\ Cardinality(Calls("get_layer")) <= Len(manifest.layers)
    /\ \A i \in Calls("get_layer") :
          LET changes == Changes(i)
              blob    == Blob(trace[i].data)
          IN  /\ Len(changes) <= Len(blob)
              /\ \A k \in DOMAIN changes : changes[k].path = blob[k].path

\* C10: when fetching or applying a layer fails, unpack returns that error,
\* nothing is fetched, dispatched or changed after it, nothing is retried,
\* and the failing step leaves the files as they were.
C10_NoRetryNoRollback ==
    /\ []C10_StateOnFailure
    /\ [][(result = Running /\ IsErr(result')) => fs' = fs]_vars
    /\ [][result # Running => UNCHANGED vars]_vars

C10_Witness ==
    /\ manifest.layers = <<"sha256:add1", "sha256:esc">>
    /\ IsErr(result)
    /\ result.kind = "AttemptedFilesystemTraversal"
    /\ fs = {File(FPath, "v1"), File(<<C>>, "v1")}

\* The entry of the archive that the k-th apply_change of a layer was given
\* is one whose path cannot be read.
PathUnreadable(digest, k) == Blob(digest)[k].path_err

\* C11: with SimpleFolderUnpacker every failure carries the tag of the phase
\* it happened in: opening the entries GetEntries, reading an entry GetEntry,
\* reading an entry's path GetEntryPath (and only for an entry whose path
\* cannot be read), a failed write UnpackEntry, a path with a ".." component
\* AttemptedFilesystemTraversal with that path; apply_change and unpack pass
\* the tag on as it is.
C11_PhaseTags ==
    unpacker = "SimpleFolderUnpacker" =>
        /\ \A i \in DOMAIN trace :
              LET e == trace[i]
              IN  e.ret # Ok =>
                    CASE e.op = "get_layer" -> e.ret = RegistryError
                      [] e.op = "entries" -> e.ret = UnpackError("GetEntries")
                      [] e.op = "entry" -> e.ret = UnpackError("GetEntry")
                      [] e.op = "apply_change" ->
                            IF i = Len(trace)
                            THEN e.ret = UnpackError("GetEntryPath")
                            ELSE e.ret = trace[i + 1].ret /\ e.ret.kind # "GetEntryPath"
                      [] e.op = "add" ->
                            LET cs == components(e.path)
                            IN  IF \E k \in DOMAIN cs : cs[k] = ParentDir
                                THEN e.ret = AttemptedFilesystemTraversal(e.path)
                                ELSE e.ret = UnpackError("UnpackEntry")
                      [] OTHER -> FALSE
        /\ \A i \in Calls("get_layer") :
              LET changes == Changes(i)
              IN  \A k \in DOMAIN changes :
                      (changes[k].ret = UnpackError("GetEntryPath"))
                          <=> PathUnreadable(trace[i].data, k)
        /\ IsErr(result) => result = trace[Len(trace)].ret

C11_Witness ==
    /\ unpacker = "SimpleFolderUnpacker"
    /\ manifest.layers = <<"sha256:adds", "sha256:esc">>
    /\ result = UnpackError("UnpackEntry")
    /\ trace[Len(trace)].op = "add"
    /\ trace[Len(trace)].path = C

\* The text of s before its first colon and after it.
BeforeColon(s) == SubSeq(s, 1, (CHOOSE i \in Colons(s) : \A j \in Colons(s) : i <= j) - 1)
AfterColon(s) ==
    SubSeq(s, (CHOOSE i \in Colons(s) : \A j \in Colons(s) : i <= j) + 1, Len(s))

\* C12: for every text that Digest parsing accepts, formatting the parsed
\* Digest gives the text back, and the algorithm and the hex of the Digest
\* are the text before and after its one colon.
C12_DigestRoundTrip ==
    (output # <<>> /\ output[1].tag = "Ok") =>
        /\ Cardinality(Colons(input)) = 1
        /\ DigestAlgorithm_fmt(output[1].val.algorithm) = BeforeColon(input)
        /\ output[1].val.hex = AfterColon(input)
        /\ Returned => (Len(output) = 2 /\ output[2] = input)

C12_Witness ==
    /\ Returned
    /\ input = Sha256Text \o <<":", "0", "a", "F">>
    /\ Len(output) = 2

\* C13: parsing a text with no colon, with more than one colon, or whose
\* part after the colon is not a hexadecimal run fails with
\* DigestParseFailed; a text of the form identifier:hex whose identifier is
\* not sha256 fails with InvalidDigestAlgorithm carrying the identifier.
C13_DigestErrors ==
    output # <<>> =>
        /\ Cardinality(Colons(input)) = 0
              => output[1] = ManifestError("DigestParseFailed", input)
        /\ Cardinality(Colons(input)) > 1
              => output[1] = ManifestError("DigestParseFailed", input)
        /\ (Cardinality(Colons(input)) = 1 /\ ~IsRunOf(AfterColon(input), HexChars))
              => output[1] = ManifestError("DigestParseFailed", input)
        /\ (/\ Cardinality(Colons(input)) = 1
            /\ IsRunOf(BeforeColon(input), IdentifierChars)
            /\ IsRunOf(AfterColon(input), HexChars)
            /\ BeforeColon(input) # Sha256Text)
              => output[1] = ManifestError("InvalidDigestAlgorithm", BeforeColon(input))

C13_Witness ==
    /\ Returned
    /\ input = Sha512Text \o <<":", "0", "a">>
    /\ output = <<ManifestError("InvalidDigestAlgorithm", Sha512Text)>>

\* C14, as claimed: parsing a media type never fails, a text that parses to
\* one of the four known variants, in its OCI or its Docker spelling, is
\* given back by formatting, and an unrecognized text parses to Other of it
\* and is given back by formatting.
C14_MediaTypeRoundTrip ==
    /\ Len(output) >= 1 =>
          /\ output[1].variant \in KnownVariants \cup {"Other"}
          /\ input \notin OciSpellings \cup DockerSpellings => output[1] = Other(input)
    /\ Len(output) >= 2 => output[2] = input

\* C14, amended: parsing a media type never fails; an OCI spelling of a
\* known variant and an unrecognized text are given back by formatting, an
\* unrecognized text parsing to Other of it; a Docker spelling parses to the
\* variant of the OCI spelling with the same meaning and is formatted as
\* that OCI spelling; and parsing the formatted text gives the variant back.
C14_MediaTypeCanonical ==
    /\ Len(output) >= 1 =>
          /\ output[1].variant \in KnownVariants \cup {"Other"}
          /\ input \in OciSpellings \cup DockerSpellings <=> output[1].variant \in KnownVariants
          /\ input \notin OciSpellings \cup DockerSpellings => output[1] = Other(input)
    /\ Len(output) >= 2 =>
          /\ input \notin DockerSpellings => output[2] = input
          /\ input = "application/vnd.docker.image.rootfs.diff.tar.gzip"
                => output[2] = "application/vnd.oci.image.layer.v1.tar+gzip"
          /\ input = "application/vnd.docker.image.rootfs.foreign.diff.tar.gzip"
                => output[2] = "application/vnd.oci.image.layer.nondistributable.v1.tar+gzip"
    /\ Len(output) >= 3 => output[3] = output[1]

C14_Witness ==
    /\ Returned
    /\ input = "application/vnd.docker.image.rootfs.foreign.diff.tar.gzip"
    /\ output[1] = Known("NondistributableTarGz")
    /\ Len(output) = 3

\* C15: the probe decides on schemaVersion first.  A document whose
\* schemaVersion is 1 is classified Schema1 whatever its mediaType is
\* (present, absent or not a string), and one whose schemaVersion is a
\* number other than 1 and 2 fails with InvalidSchemaVersion carrying that
\* number, whatever its mediaType is.
C15_SchemaVersionFirst ==
    (Len(output) >= 1 /\ pc # "probe_manifest_v2_schema"
        /\ input.json /\ input.schemaVersion.kind = "u64") =>
       LET n == input.schemaVersion.n
       IN  /\ n = 1 => output[1] = OkVal("Schema1")
           /\ n \notin {1, 2} => output[1] = ManifestError("InvalidSchemaVersion", n)

\* The probe returned InvalidSchemaVersion(3) for a document whose mediaType
\* is not a string, and Schema1 is what a document without mediaType gets.
C15_Witness ==
    /\ pc = "ManifestV2::from_str"
    /\ input.schemaVersion = U64(3)
    /\ input.mediaType = Mistyped
    /\ output[1] = ManifestError("InvalidSchemaVersion", 3)

\* C16: for a document of schemaVersion 2 the probe's result is decided by
\* the mediaType up to its first "+": Schema2 for the OCI and the Docker
\* manifest.v2 string, Schema2List for the OCI and the Docker
\* manifest.list.v2 string, InvalidMediaType carrying the whole mediaType for
\* every other; without a mediaType string the probe fails with JsonError.
C16_MediaTypePrefix ==
    (Len(output) >= 1 /\ pc # "probe_manifest_v2_schema"
        /\ input.json /\ input.schemaVersion = U64(2)) =>
       IF input.mediaType.kind # "string"
       THEN output[1].tag = "Err" /\ output[1].kind = "JsonError"
       ELSE LET text == input.mediaType.text
                prefix == IF \E i \in DOMAIN text : text[i] = "+"
                          THEN Concat(SubSeq(text, 1,
                                   (CHOOSE i \in DOMAIN text :
                                       /\ text[i] = "+"
                                       /\ \A j \in 1..(i - 1) : text[j] # "+") - 1))
                          ELSE Concat(text)
            IN  output[1] =
                  IF prefix \in {"application/vnd.oci.distribution.manifest.v2",
                                 "application/vnd.docker.distribution.manifest.v2"}
                  THEN OkVal("Schema2")
                  ELSE IF prefix \in {"application/vnd.oci.distribution.manifest.list.v2",
                                      "application/vnd.docker.distribution.manifest.list.v2"}
                  THEN OkVal("Schema2List")
                  ELSE ManifestError("InvalidMediaType", Concat(text))

\* The probe classified a Docker manifest list with two suffixes.
C16_Witness ==
    /\ pc = "ManifestV2::from_str"
    /\ input.schemaVersion = U64(2)
    /\ input.mediaType = String(<<"application/vnd.docker.distribution.manifest.list.v2",
                                  "+", "prettyjws", "+", "json">>)
    /\ output[1] = OkVal("Schema2List")

\* C17: the full parse agrees with the probe.  When the probe fails the
\* parse fails with the same error; when the probe succeeds the parse either
\* returns a manifest of the probe's variant, decoded from a document that
\* has the members of that variant's structure, or fails with JsonError.
C17_ParseAgreesWithProbe ==
    pc = "returned" =>
       LET probe == output[1]
           parsed == output[2]
       IN  /\ probe.tag = "Err" => parsed = probe
           /\ probe.tag = "Ok" =>
                 IF Decodes(StructOf(probe.val), input)
                 THEN /\ parsed.tag = "Ok"
                      /\ parsed.val.variant = probe.val
                      /\ parsed.val.struct = StructOf(probe.val)
                      /\ parsed.val.data = input
                 ELSE parsed.tag = "Err" /\ parsed.kind = "JsonError"

\* A document that the probe classifies Schema2 and that lacks the members of
\* ManifestV2_2 while it has those of ManifestV2_1: the parse failed.
C17_Witness ==
    /\ pc = "returned"
    /\ output[1] = OkVal("Schema2")
    /\ input.members = {"ManifestV2_1"}
    /\ output[2] = ManifestError("JsonError", "ManifestV2_2")

\* C18: get_current_platform_manifest.  When the selector yields no entry the
\* result is NoMatchingPlatformFound and the registry was not asked; when it
\* yields an entry the registry was asked once, for the manifest of that
\* entry's digest, a failure of the request is the result, and an answer is
\* parsed as ManifestV2::from_str parses any manifest: where that parse
\* fails the result is its error, where it gives a Schema2 manifest the
\* result is that manifest.
C18_Resolve ==
    pc = "returned" =>
       LET returned == output[Len(output)]
       IN  IF output[1] = None
           THEN /\ returned =
                      RegistryError_ManifestError(ManifestError("NoMatchingPlatformFound", ""))
                /\ trace = <<>>
           ELSE /\ Len(trace) = 1
                /\ trace[1].url = ManifestUrl(output[1][1])
                /\ output[1][1] \in {input[i] : i \in DOMAIN input}
                /\ output[2].tag = "Err" => returned = output[2]
                /\ output[2].tag = "Ok" =>
                      LET parsed == ManifestV2_from_str(output[2].val)
                      IN  /\ parsed.tag = "Err" =>
                                /\ returned.tag = "Err"
                                /\ returned.kind = "ManifestError"
                                /\ returned.arg.kind = parsed.kind
                                /\ parsed.kind # "JsonError" => returned.arg = parsed
                          /\ (parsed.tag = "Ok" /\ parsed.val.variant = "Schema2") =>
                                returned = OkVal(parsed.val.data)

IsHook(e) == e.op \in {"pre_apply", "post_apply"}

\* The position of the last call of pre_apply before position j, 0 when
\* there is none.
OpenedAt(j) ==
    LET before == {k \in Calls("pre_apply") : k < j}
    IN  IF before = {} THEN 0 ELSE CHOOSE k \in before : \A l \in before : l <= k

\* C20: in every run of unpack the calls of pre_apply and post_apply
\* alternate, pre_apply first; post_apply is called only after pre_apply and
\* the dispatch of every entry of that layer have succeeded; an entry is
\* dispatched only between a pre_apply that succeeded and the post_apply of
\* the same layer; and when unpack returns Ok pre_apply and post_apply have
\* each been called once for every layer.
C20_HookBrackets ==
    LET hooks == SelectSeq(trace, IsHook)
        pres  == Cardinality(Calls("pre_apply"))
        posts == Cardinality(Calls("post_apply"))
    IN  /\ \A k \in DOMAIN hooks :
              hooks[k].op = IF k % 2 = 1 THEN "pre_apply" ELSE "post_apply"
        /\ posts <= pres /\ pres <= posts + 1
        /\ \A j \in Calls("post_apply") :
              LET open == OpenedAt(j)
              IN  /\ open > 1
                  /\ trace[open].ret = Ok
                  /\ trace[open - 1].op = "get_layer"
                  /\ \A k \in (open + 1)..(j - 1) :
                        trace[k].op \notin {"get_layer", "post_apply"} /\ trace[k].ret = Ok
                  /\ Cardinality({k \in (open + 1)..(j - 1) : trace[k].op = "apply_change"})
                        = Len(Blob(trace[open - 1].data))
        /\ \A j \in DOMAIN trace :
              trace[j].op \in HandlerOps \cup {"apply_change"} =>
                 LET open == OpenedAt(j)
                 IN  /\ open > 0
                     /\ trace[open].ret = Ok
                     /\ \A k \in (open + 1)..(j - 1) :
                           trace[k].op \notin {"get_layer", "post_apply"}
        /\ result = Ok =>
              pres = Len(layers(manifest)) /\ posts = Len(layers(manifest))

\* The second layer's pre_apply failed after the first layer was applied:
\* two calls of pre_apply, one of post_apply, and no entry of the second layer
\* dispatched.
C20_Witness ==
    /\ pc = "returned"
    /\ manifest.layers = <<"sha256:add1", "sha256:wh">>
    /\ Cardinality(Calls("pre_apply")) = 2
    /\ Cardinality(Calls("post_apply")) = 1
    /\ trace[Len(trace)].op = "pre_apply"
    /\ result = UnpackError("UnpackEntry")

====
